---- MODULE Spec2Model ----
(***************************************************************************)
(* A model of attributesMixin (src/src/attributes.mixin.js): the accessors *)
(* it installs on the prototype of a web component class, the observed     *)
(* attribute list it derives, and the host element it relies on.           *)
(***************************************************************************)
EXTENDS Integers, Sequences, FiniteSets, TLC

(***************************************************************************)
(* JavaScript values.  A string is a sequence of one-character strings, so *)
(* that parseFloat and String() are computed and not assumed.  A number is *)
(* the decimal m * 10^(-e), kept normalised (e = 0 or m not a multiple of  *)
(* 10).  Absent is not a JavaScript value: it marks a key that a Map, an   *)
(* object or a prototype does not have.                                    *)
(***************************************************************************)
Undefined == [t |-> "undefined", b |-> FALSE, m |-> 0, e |-> 0, s |-> <<>>]

Null == [t |-> "null", b |-> FALSE, m |-> 0, e |-> 0, s |-> <<>>]

NaN == [t |-> "NaN", b |-> FALSE, m |-> 0, e |-> 0, s |-> <<>>]

Absent == [t |-> "absent", b |-> FALSE, m |-> 0, e |-> 0, s |-> <<>>]

Bool(x) == [t |-> "boolean", b |-> x, m |-> 0, e |-> 0, s |-> <<>>]

Num(mant, exp) == [t |-> "number", b |-> FALSE, m |-> mant, e |-> exp, s |-> <<>>]

Str(chars) == [t |-> "string", b |-> FALSE, m |-> 0, e |-> 0, s |-> chars]

DigitChars == <<"0", "1", "2", "3", "4", "5", "6", "7", "8", "9">>

IsDigit(c) == \E i \in 1..10 : DigitChars[i] = c

DigitVal(c) == (CHOOSE i \in 1..10 : DigitChars[i] = c) - 1

RECURSIVE Pow10(_)
Pow10(k) == IF k = 0 THEN 1 ELSE 10 * Pow10(k - 1)

RECURSIVE NatDigits(_)
NatDigits(n) ==
  IF n < 10 THEN <<DigitChars[n + 1]>>
  ELSE NatDigits(n \div 10) \o <<DigitChars[(n % 10) + 1]>>

RECURSIVE PadDigits(_, _)
PadDigits(ds, width) == IF Len(ds) >= width THEN ds ELSE PadDigits(<<"0">> \o ds, width)

\* Number::toString for the decimals of the model.
NumberToStr(mant, exp) ==
  LET abs == IF mant < 0 THEN 0 - mant ELSE mant
      whole == NatDigits(abs \div Pow10(exp))
      frac == IF exp = 0 THEN <<>>
              ELSE <<".">> \o PadDigits(NatDigits(abs % Pow10(exp)), exp)
  IN (IF mant < 0 THEN <<"-">> ELSE <<>>) \o whole \o frac

\* ToStr(value), as setAttribute and parseFloat apply it to their argument.
ToStr(v) ==
  CASE v.t = "string" -> v.s
    [] v.t = "number" -> NumberToStr(v.m, v.e)
    [] v.t = "boolean" -> IF v.b THEN <<"t", "r", "u", "e">> ELSE <<"f", "a", "l", "s", "e">>
    [] v.t = "null" -> <<"n", "u", "l", "l">>
    [] v.t = "NaN" -> <<"N", "a", "N">>
    [] OTHER -> <<"u", "n", "d", "e", "f", "i", "n", "e", "d">>

RECURSIVE SkipSpaces(_)
SkipSpaces(cs) == IF cs # <<>> /\ Head(cs) = " " THEN SkipSpaces(Tail(cs)) ELSE cs

RECURSIVE TakeDigits(_)
TakeDigits(cs) ==
  IF cs # <<>> /\ IsDigit(Head(cs)) THEN <<Head(cs)>> \o TakeDigits(Tail(cs)) ELSE <<>>

RECURSIVE DigitsToNat(_)
DigitsToNat(ds) ==
  IF ds = <<>> THEN 0
  ELSE 10 * DigitsToNat(SubSeq(ds, 1, Len(ds) - 1)) + DigitVal(ds[Len(ds)])

RECURSIVE Normalise(_, _)
Normalise(mant, exp) ==
  IF exp > 0 /\ mant % 10 = 0 THEN Normalise(mant \div 10, exp - 1) ELSE Num(mant, exp)

\* parseFloat(value): the longest decimal prefix of ToStr(value) after leading
\* white space, NaN when there is none.
parseFloat(v) ==
  LET cs == SkipSpaces(ToStr(v))
      signed == cs # <<>> /\ Head(cs) \in {"-", "+"}
      neg == cs # <<>> /\ Head(cs) = "-"
      body == IF signed THEN Tail(cs) ELSE cs
      whole == TakeDigits(body)
      rest == SubSeq(body, Len(whole) + 1, Len(body))
      frac == IF rest # <<>> /\ Head(rest) = "." THEN TakeDigits(Tail(rest)) ELSE <<>>
      mag == DigitsToNat(whole \o frac)
  IN IF whole = <<>> /\ frac = <<>> THEN NaN
     ELSE Normalise(IF neg THEN 0 - mag ELSE mag, Len(frac))

\* ToBoolean(value).
Truthy(v) ==
  CASE v.t = "boolean" -> v.b
    [] v.t = "number" -> v.m # 0
    [] v.t = "string" -> v.s # <<>>
    [] OTHER -> FALSE

\* The || operator.
OrElse(a, b) == IF Truthy(a) THEN a ELSE b

(***************************************************************************)
(* Attribute configs (the entries of a class's static attributes).  A name *)
(* that a config leaves out is NoName, a type it leaves out is "none", a   *)
(* defaultValue it leaves out is Undefined, readonly left out is FALSE.    *)
(***************************************************************************)
NoName == "<none>"

AttributeConfig(idl, content, target, type, default, ro) ==
  [idlName |-> idl, contentName |-> content, proxyTarget |-> target,
   type |-> type, defaultValue |-> default, readonly |-> ro]

\* ToPropertyKey(idlName): Object.defineProperty turns a missing idlName into the
\* key "undefined".
PropertyKey(idl) == IF idl = NoName THEN "undefined" ELSE idl

\* WebComponent and WebComponentX each extend their own call of attributesMixin;
\* SubComponent is a component class that extends WebComponent.
Classes == {"WebComponent", "WebComponentX", "SubComponent"}

\* Every call of attributesMixin returns a new class Mixin with its own
\* #attributesReady; a class that extends a component class has the Mixin class
\* of that class.
MixinOf(c) == IF c = "WebComponentX" THEN "MixinX" ELSE "MixinA"

Mixins == {MixinOf(c) : c \in Classes}

\* The prototype of every class has the one of WebComponent behind it.
ProtoChainThroughWebComponent(c) == <<c, "WebComponent">>

\* The classes whose prototypes an instance of c looks a property up in, nearest
\* first.
ProtoChain(c) == IF c = "SubComponent" THEN <<c, "WebComponent">> ELSE <<c>>

PropKeys == {"a", "undefined"}

AttrNames == {"a", "c"}

RECURSIVE SelectContentNames(_)
SelectContentNames(configs) ==
  IF configs = <<>> THEN <<>>
  ELSE (IF Head(configs).contentName # NoName THEN <<Head(configs).contentName>> ELSE <<>>)
       \o SelectContentNames(Tail(configs))

\* static get observedAttributes(): filter on contentName, map to contentName.
observedAttributesMissesFirst(configs) ==
  IF configs = <<>> THEN <<>> ELSE SelectContentNames(Tail(configs))

observedAttributes(configs) == SelectContentNames(configs)

InSeq(x, sq) == \E i \in 1..Len(sq) : sq[i] = x

(***************************************************************************)
(* An instance: its class, its #idlAttributes Map, its content attributes  *)
(* (Null when not present), its own data properties, and the object its    *)
(* proxyTarget property holds.                                             *)
(***************************************************************************)
NewInstance(c) ==
  [cls |-> c,
   idlAttributes |-> [k \in PropKeys \cup {NoName} |-> Absent],
   attrs |-> [n \in AttrNames |-> Null],
   props |-> [k \in PropKeys |-> Absent],
   target |-> [k \in PropKeys \cup {NoName} |-> Absent]]

\* Map.prototype.get and a property read of a plain object.
MapGet(map, k) == IF map[k] = Absent THEN Undefined ELSE map[k]

\* One call of attributeChangedCallback.
HookCall(by, name, old, new) == [by |-> by, name |-> name, old |-> old, new |-> new]

\* One call of setAttribute or removeAttribute.
AttrCall(op, name, value) == [op |-> op, name |-> name, value |-> value]

Effect(el, hook, calls) == [el |-> el, hook |-> hook, calls |-> calls]

(***************************************************************************)
(* The host element: setAttribute stores the string form of the value and, *)
(* for an observed name, calls attributeChangedCallback(name, old, new);   *)
(* removeAttribute does the same with new = null when the attribute was    *)
(* present and nothing otherwise.                                          *)
(***************************************************************************)
setAttribute(el, observed, name, value) ==
  LET new == Str(ToStr(value))
  IN Effect([el EXCEPT !.attrs[name] = new],
            IF InSeq(name, observed) THEN <<HookCall("host", name, el.attrs[name], new)>>
            ELSE <<>>,
            <<AttrCall("setAttribute", name, new)>>)

removeAttribute(el, observed, name) ==
  Effect([el EXCEPT !.attrs[name] = Null],
         IF InSeq(name, observed) /\ el.attrs[name] # Null
         THEN <<HookCall("host", name, el.attrs[name], Null)>>
         ELSE <<>>,
         <<AttrCall("removeAttribute", name, Null)>>)

hasAttribute(el, name) == el.attrs[name] # Null

getAttribute(el, name) == el.attrs[name]

(***************************************************************************)
(* The accessors #setupAttribute defines, one pair per type.  d is the     *)
(* config the accessor closes over, el the instance it is called on.       *)
(***************************************************************************)
Reflects(d) == d.contentName # NoName

HasProxy(d) == d.proxyTarget # NoName

\* value !== undefined ? Boolean(value) : Boolean(defaultValue)
BooleanOr(value, default) ==
  IF value # Undefined THEN Bool(Truthy(value)) ELSE Bool(Truthy(default))

booleanGet(d, el) ==
  IF HasProxy(d) THEN BooleanOr(MapGet(el.target, d.idlName), d.defaultValue)
  ELSE IF ~Reflects(d) THEN BooleanOr(MapGet(el.idlAttributes, d.idlName), d.defaultValue)
  ELSE Bool(hasAttribute(el, d.contentName))

numberGet(d, el) ==
  IF HasProxy(d) THEN OrElse(parseFloat(MapGet(el.target, d.idlName)), Null)
  ELSE IF ~Reflects(d)
  THEN OrElse(parseFloat(MapGet(el.idlAttributes, d.idlName)),
              OrElse(parseFloat(d.defaultValue), Null))
  ELSE OrElse(parseFloat(getAttribute(el, d.contentName)),
              OrElse(parseFloat(d.defaultValue), Null))

defaultGet(d, el) ==
  IF HasProxy(d) THEN MapGet(el.target, d.idlName)
  ELSE IF ~Reflects(d)
  THEN OrElse(MapGet(el.idlAttributes, d.idlName),
              OrElse(d.defaultValue, IF d.type = "string" THEN Str(<<>>) ELSE Null))
  ELSE OrElse(getAttribute(el, d.contentName), OrElse(d.defaultValue, Str(<<>>)))

\* if (proxyTarget) { this[proxyTarget][idlAttributeName] = value; }
\* There is no return after it: the setter goes on to the next test.
proxyWrite(d, el, value) ==
  IF HasProxy(d) THEN [el EXCEPT !.target[d.idlName] = value] ELSE el

\* storeWrite with the value also reflected to a content attribute named like
\* the idlName.
storeWriteReflects(d, el, value) ==
  Effect([el EXCEPT !.idlAttributes[d.idlName] = value,
                    !.attrs[d.idlName] = Str(ToStr(value))],
         <<HookCall("direct", d.idlName, MapGet(el.idlAttributes, d.idlName), value)>>,
         <<AttrCall("setAttribute", d.idlName, Str(ToStr(value)))>>)

\* The non-reflecting branch the three setters share: the Map entry, then a
\* direct call of attributeChangedCallback, then return.
storeWrite(d, el, value) ==
  Effect([el EXCEPT !.idlAttributes[d.idlName] = value],
         <<HookCall("direct", d.idlName, MapGet(el.idlAttributes, d.idlName), value)>>,
         <<>>)

\* booleanSet with the written value, not '', given to setAttribute.
booleanSetWritesValue(d, el, observed, value) ==
  IF d.readonly THEN Effect(el, <<>>, <<>>)
  ELSE LET el1 == proxyWrite(d, el, value)
       IN IF ~Reflects(d) THEN storeWrite(d, el1, value)
          ELSE IF Truthy(value) THEN setAttribute(el1, observed, d.contentName, value)
          ELSE removeAttribute(el1, observed, d.contentName)

booleanSet(d, el, observed, value) ==
  IF d.readonly THEN Effect(el, <<>>, <<>>)
  ELSE LET el1 == proxyWrite(d, el, value)
       IN IF ~Reflects(d) THEN storeWrite(d, el1, value)
          ELSE IF Truthy(value) THEN setAttribute(el1, observed, d.contentName, Str(<<>>))
          ELSE removeAttribute(el1, observed, d.contentName)

\* numberSet without the readonly guard.
numberSetIgnoresReadonly(d, el, observed, value) ==
  LET el1 == proxyWrite(d, el, value)
  IN IF ~Reflects(d) THEN storeWrite(d, el1, value)
     ELSE setAttribute(el1, observed, d.contentName, value)

numberSet(d, el, observed, value) ==
  IF d.readonly THEN Effect(el, <<>>, <<>>)
  ELSE LET el1 == proxyWrite(d, el, value)
       IN IF ~Reflects(d) THEN storeWrite(d, el1, value)
          ELSE setAttribute(el1, observed, d.contentName, value)

\* defaultSet with a direct call of attributeChangedCallback in the reflecting
\* branch too.
defaultSetCallsHook(d, el, observed, value) ==
  IF d.readonly THEN Effect(el, <<>>, <<>>)
  ELSE LET el1 == proxyWrite(d, el, value)
           set == setAttribute(el1, observed, d.contentName, value)
       IN IF ~Reflects(d) THEN storeWrite(d, el1, value)
          ELSE Effect(set.el,
                      <<HookCall("direct", d.idlName, getAttribute(el, d.contentName), value)>>
                        \o set.hook,
                      set.calls)

defaultSet(d, el, observed, value) ==
  IF d.readonly THEN Effect(el, <<>>, <<>>)
  ELSE LET el1 == proxyWrite(d, el, value)
       IN IF ~Reflects(d) THEN storeWrite(d, el1, value)
          ELSE setAttribute(el1, observed, d.contentName, value)

\* switch (attributeType): which pair a config gets.
AccessorGet(d, el) ==
  CASE d.type = "boolean" -> booleanGet(d, el)
    [] d.type = "number" -> numberGet(d, el)
    [] OTHER -> defaultGet(d, el)

AccessorSet(d, el, observed, value) ==
  CASE d.type = "boolean" -> booleanSet(d, el, observed, value)
    [] d.type = "number" -> numberSet(d, el, observed, value)
    [] OTHER -> defaultSet(d, el, observed, value)

(***************************************************************************)
(* A prototype: for every key, whether an accessor is defined on it and    *)
(* the config the accessor closes over.                                    *)
(***************************************************************************)
NoConfig == AttributeConfig(NoName, NoName, NoName, "none", Undefined, FALSE)

NoAccessor == [defined |-> FALSE, config |-> NoConfig]

EmptyPrototype == [k \in PropKeys |-> NoAccessor]

\* The error #setupAttribute throws for a config, "" when it throws none.
ConfigError(d) ==
  IF HasProxy(d) /\ d.idlName = NoName THEN "idlName required with proxyTarget"
  ELSE IF HasProxy(d) /\ Reflects(d) THEN "contentName with proxyTarget"
  ELSE IF d.readonly /\ ~HasProxy(d) /\ d.defaultValue = Undefined
  THEN "readonly without proxyTarget or defaultValue"
  ELSE ""

\* #setupAttribute: the three checks, then Object.defineProperty on the prototype
\* under ToPropertyKey(idlName), which throws a TypeError when the prototype has
\* the key already (the accessor it defined is not configurable).
setupAttribute(proto, d) ==
  LET key == PropertyKey(d.idlName)
  IN IF ConfigError(d) # "" THEN [proto |-> proto, error |-> ConfigError(d)]
     ELSE IF proto[key].defined
     THEN [proto |-> proto, error |-> "TypeError: Cannot redefine property"]
     ELSE [proto |-> [proto EXCEPT ![key] = [defined |-> TRUE, config |-> d]],
           error |-> ""]

\* #setupAttributes: forEach over the configs; the first throw ends it and leaves
\* what the earlier configs defined.
RECURSIVE setupAttributes(_, _)
setupAttributes(proto, configs) ==
  IF configs = <<>> THEN [proto |-> proto, error |-> ""]
  ELSE LET first == setupAttribute(proto, Head(configs))
       IN IF first.error # "" THEN first
          ELSE setupAttributes(first.proto, Tail(configs))

(***************************************************************************)
(* The program: the component classes that are defined, each with its      *)
(* static attributes, and the run-time state: #attributesReady of every    *)
(* Mixin class, the accessors on every class prototype, the instances.     *)
(* lastOp records the last operation (the instance before it, the calls of *)
(* attributeChangedCallback and of setAttribute/removeAttribute it made,   *)
(* the error it threw); lastRead the last read and its result.             *)
(***************************************************************************)
VARIABLES registered, attributes, attributesReady, prototypes, instances,
          lastOp, lastRead, steps

vars == <<registered, attributes, attributesReady, prototypes, instances,
          lastOp, lastRead, steps>>

\* The number of operations of a run; steps counts the ones left.
MaxSteps == 3

Types == {"none", "boolean", "number", "string"}

Chars(str) ==
  CASE str = "" -> <<>>
    [] str = "0" -> <<"0">>
    [] str = "42" -> <<"4", "2">>
    [] str = "1.5" -> <<"1", ".", "5">>
    [] str = "a" -> <<"a">>
    [] str = "abc" -> <<"a", "b", "c">>

\* The values a config gives as defaultValue.
DefaultValues == {Undefined, Bool(FALSE), Num(0, 0), Str(Chars("")), Str(Chars("42"))}

\* The values written to properties and to the proxy target.
WrittenValues ==
  {Bool(FALSE), Bool(TRUE), Num(0, 0), Num(42, 0),
   Str(Chars("")), Str(Chars("0")), Str(Chars("1.5")), Str(Chars("abc"))}

\* The properties of the proxy target that are written directly.
TargetKeys == {"a"}

\* The values given to setAttribute from outside.
AttributeValues == {Str(Chars("")), Str(Chars("0")), Str(Chars("1.5")), Str(Chars("abc"))}

\* The configs of one shape: with or without idlName "a", contentName "c" and
\* a proxyTarget, over every type, defaultValue and readonly.
ConfigsOf(idl, content, target) ==
  {AttributeConfig(idl, content, target, t, dv, r) :
     t \in Types, dv \in DefaultValues, r \in BOOLEAN}

NoOp ==
  [kind |-> "none", inst |-> 0, key |-> "", value |-> Undefined, hook |-> <<>>,
   calls |-> <<>>, error |-> "", before |-> NewInstance("WebComponent")]

NoRead == [kind |-> "none", inst |-> 0, key |-> "", value |-> Undefined, list |-> <<>>]

InitRun(n) ==
  /\ attributesReady = [m \in Mixins |-> FALSE]
  /\ prototypes = [c \in Classes |-> EmptyPrototype]
  /\ instances = <<>>
  /\ lastOp = NoOp
  /\ lastRead = NoRead
  /\ steps = n

\* The program with the one component class WebComponent and the given configs.
OneClass(configs, n) ==
  /\ registered = {"WebComponent"}
  /\ attributes = [c \in Classes |-> IF c = "WebComponent" THEN configs ELSE <<>>]
  /\ InitRun(n)

\* { idlName: 'a', type, defaultValue, readonly }
InitNonReflecting == \E d \in ConfigsOf("a", NoName, NoName) : OneClass(<<d>>, MaxSteps)

\* { idlName: 'a', contentName: 'c', type, defaultValue, readonly }
InitReflecting == \E d \in ConfigsOf("a", "c", NoName) : OneClass(<<d>>, MaxSteps)

\* { idlName: 'a', proxyTarget: 'proxyTarget', type, defaultValue, readonly }
InitProxy == \E d \in ConfigsOf("a", NoName, "proxyTarget") : OneClass(<<d>>, MaxSteps)

\* { contentName: 'c', type, defaultValue, readonly }
InitContentOnly == \E d \in ConfigsOf(NoName, "c", NoName) : OneClass(<<d>>, MaxSteps)

\* The configs the lists are made of.
ListConfigs ==
  {AttributeConfig(i, c, NoName, "none", Undefined, FALSE) :
     i \in {NoName, "a"}, c \in {NoName, "a", "c"}}
  \ {AttributeConfig(NoName, NoName, NoName, "none", Undefined, FALSE)}

\* The longest static attributes list.
MaxConfigs == 2

RECURSIVE ListsUpTo(_)
ListsUpTo(n) ==
  IF n = 0 THEN {<<>>}
  ELSE LET shorter == ListsUpTo(n - 1)
       IN shorter \cup {Append(l, d) : l \in {x \in shorter : Len(x) = n - 1}, d \in ListConfigs}

\* Every list of at most MaxConfigs configs, with one operation less to run.
InitLists == \E l \in ListsUpTo(MaxConfigs) : OneClass(l, MaxSteps - 1)

\* The readonly configs of every shape that pass the three checks.
ReadonlyConfigs ==
  {d \in ConfigsOf("a", NoName, NoName) \cup ConfigsOf("a", "c", NoName)
         \cup ConfigsOf("a", NoName, "proxyTarget") \cup ConfigsOf(NoName, "c", NoName) :
     d.readonly /\ ConfigError(d) = ""}

\* { idlName?, contentName?, proxyTarget?, type, defaultValue, readonly: true }
InitReadonly == \E d \in ReadonlyConfigs : OneClass(<<d>>, MaxSteps)

\* Three configs that pass the three checks, and one that fails each: the one of
\* the first test has a contentName too and fails the first check.
CheckedConfigs ==
  {AttributeConfig("a", NoName, NoName, "none", Undefined, FALSE),
   AttributeConfig(NoName, "a", NoName, "none", Undefined, FALSE),
   AttributeConfig(NoName, "c", NoName, "none", Undefined, FALSE),
   AttributeConfig(NoName, "c", "proxyTarget", "none", Undefined, FALSE),
   AttributeConfig("a", "c", "proxyTarget", "none", Undefined, FALSE),
   AttributeConfig("a", NoName, NoName, "none", Undefined, TRUE)}

RECURSIVE ListsOver(_, _)
ListsOver(configs, n) ==
  IF n = 0 THEN {<<>>}
  ELSE LET shorter == ListsOver(configs, n - 1)
       IN shorter \cup {Append(l, d) : l \in {x \in shorter : Len(x) = n - 1}, d \in configs}

\* Every list of at most MaxConfigs + 1 of these configs.
InitChecked == \E l \in ListsOver(CheckedConfigs, MaxConfigs + 1) : OneClass(l, MaxSteps)

\* The program with the given component classes and their configs.
ManyClasses(lists, n) ==
  /\ registered = DOMAIN lists
  /\ attributes = [c \in Classes |-> IF c \in DOMAIN lists THEN lists[c] ELSE <<>>]
  /\ InitRun(n)

\* The configs of the classes of a program with more than one class.
SharedConfigs ==
  {AttributeConfig("a", NoName, NoName, "none", Undefined, FALSE),
   AttributeConfig("a", "c", NoName, "none", Undefined, FALSE),
   AttributeConfig(NoName, "a", NoName, "none", Undefined, FALSE)}

\* The static attributes of such a class: no config or one.
SharedLists == {<<>>} \cup {<<d>> : d \in SharedConfigs}

\* class WebComponent extends attributesMixin(HTMLElement) and
\* class SubComponent extends WebComponent, each with its static attributes.
InitSubclass ==
  \E lw \in SharedLists, ls \in SharedLists :
    ManyClasses([c \in {"WebComponent", "SubComponent"} |->
                   IF c = "WebComponent" THEN lw ELSE ls], MaxSteps)

\* class WebComponent extends attributesMixin(HTMLElement) and
\* class WebComponentX extends attributesMixin(HTMLElement), each with its
\* static attributes.
InitTwoClasses ==
  \E lw \in SharedLists, lx \in SharedLists :
    ManyClasses([c \in {"WebComponent", "WebComponentX"} |->
                   IF c = "WebComponent" THEN lw ELSE lx], MaxSteps)

ObservedOf(c) == observedAttributes(attributes[c])

RECURSIVE FindAccessor(_, _, _)
FindAccessor(chain, protos, key) ==
  IF chain = <<>> THEN NoAccessor
  ELSE IF protos[Head(chain)][key].defined THEN protos[Head(chain)][key]
  ELSE FindAccessor(Tail(chain), protos, key)

\* el[key]: an own data property, else the accessor found on the prototype
\* chain, else undefined.
GetProperty(el, protos, key) ==
  LET acc == FindAccessor(ProtoChain(el.cls), protos, key)
  IN IF el.props[key] # Absent THEN el.props[key]
     ELSE IF acc.defined THEN AccessorGet(acc.config, el)
     ELSE Undefined

\* el[key] = value: an own data property is overwritten, else the setter found
\* on the prototype chain is called, else an own data property is created.
SetProperty(el, protos, observed, key, value) ==
  LET acc == FindAccessor(ProtoChain(el.cls), protos, key)
  IN IF el.props[key] = Absent /\ acc.defined
     THEN AccessorSet(acc.config, el, observed, value)
     ELSE Effect([el EXCEPT !.props[key] = value], <<>>, <<>>)

\* new c(): super(), the Map, then #setupAttributes unless the Mixin class is
\* ready.  A throw aborts the construction: no instance, the flag stays false,
\* the accessors defined before the throw stay.
Construct(c) ==
  LET m == MixinOf(c)
      setup == setupAttributes(prototypes[c], attributes[c])
      threw == ~attributesReady[m] /\ setup.error # ""
  IN /\ steps > 0
     /\ c \in registered
     /\ prototypes' = IF attributesReady[m] THEN prototypes
                      ELSE [prototypes EXCEPT ![c] = setup.proto]
     /\ attributesReady' = IF threw THEN attributesReady
                           ELSE [attributesReady EXCEPT ![m] = TRUE]
     /\ instances' = IF threw THEN instances ELSE Append(instances, NewInstance(c))
     /\ lastOp' = [NoOp EXCEPT !.kind = "construct",
                               !.inst = IF threw THEN 0 ELSE Len(instances) + 1,
                               !.key = c,
                               !.error = IF threw THEN setup.error ELSE ""]
     /\ lastRead' = NoRead
     /\ steps' = steps - 1
     /\ UNCHANGED <<registered, attributes>>

Apply(kind, i, key, value, eff) ==
  /\ instances' = [instances EXCEPT ![i] = eff.el]
  /\ lastOp' = [kind |-> kind, inst |-> i, key |-> key, value |-> value,
                hook |-> eff.hook, calls |-> eff.calls, error |-> "",
                before |-> instances[i]]
  /\ lastRead' = NoRead
  /\ steps' = steps - 1
  /\ UNCHANGED <<registered, attributes, attributesReady, prototypes>>

\* el[key] = value, from outside.
WriteProperty(i, key, value) ==
  /\ steps > 0
  /\ Apply("write", i, key, value,
           SetProperty(instances[i], prototypes, ObservedOf(instances[i].cls), key, value))

\* el.setAttribute(name, value), from outside.
SetAttributeExternal(i, name, value) ==
  /\ steps > 0
  /\ Apply("setAttribute", i, name, value,
           setAttribute(instances[i], ObservedOf(instances[i].cls), name, value))

\* el.removeAttribute(name), from outside.
RemoveAttributeExternal(i, name) ==
  /\ steps > 0
  /\ Apply("removeAttribute", i, name, Null,
           removeAttribute(instances[i], ObservedOf(instances[i].cls), name))

\* el.proxyTarget[key] = value, from outside: the proxy target written directly.
WriteProxyTarget(i, key, value) ==
  /\ steps > 0
  /\ Apply("writeTarget", i, key, value,
           Effect([instances[i] EXCEPT !.target[key] = value], <<>>, <<>>))

\* el[key], read from outside.
ReadProperty(i, key) ==
  /\ steps > 0
  /\ lastRead' = [NoRead EXCEPT !.kind = "get", !.inst = i, !.key = key,
                                !.value = GetProperty(instances[i], prototypes, key)]
  /\ steps' = steps - 1
  /\ UNCHANGED <<registered, attributes, attributesReady, prototypes, instances,
                 lastOp>>

\* c.observedAttributes, read from outside.
ReadObservedAttributes(c) ==
  /\ steps > 0
  /\ c \in registered
  /\ lastRead' = [NoRead EXCEPT !.kind = "observedAttributes", !.key = c,
                                !.list = observedAttributes(attributes[c])]
  /\ steps' = steps - 1
  /\ UNCHANGED <<registered, attributes, attributesReady, prototypes, instances,
                 lastOp>>

Next ==
  \/ \E c \in Classes : Construct(c)
  \/ \E i \in DOMAIN instances, key \in PropKeys, value \in WrittenValues :
       WriteProperty(i, key, value)
  \/ \E i \in DOMAIN instances, name \in AttrNames, value \in AttributeValues :
       SetAttributeExternal(i, name, value)
  \/ \E i \in DOMAIN instances, name \in AttrNames : RemoveAttributeExternal(i, name)
  \/ \E i \in DOMAIN instances, key \in TargetKeys, value \in WrittenValues :
       WriteProxyTarget(i, key, value)
  \/ \E i \in DOMAIN instances, key \in PropKeys : ReadProperty(i, key)
  \/ \E c \in Classes : ReadObservedAttributes(c)

SpecNonReflecting == InitNonReflecting /\ [][Next]_vars

SpecReflecting == InitReflecting /\ [][Next]_vars

SpecProxy == InitProxy /\ [][Next]_vars

SpecContentOnly == InitContentOnly /\ [][Next]_vars

SpecLists == InitLists /\ [][Next]_vars

SpecReadonly == InitReadonly /\ [][Next]_vars

SpecChecked == InitChecked /\ [][Next]_vars

SpecSubclass == InitSubclass /\ [][Next]_vars

SpecTwoClasses == InitTwoClasses /\ [][Next]_vars

(***************************************************************************)
(* Properties.  They speak of the last operation: the instance before it   *)
(* (lastOp.before), the instance after it, and the calls it made.          *)
(***************************************************************************)
LastEl == instances[lastOp.inst]

LastAccessor == FindAccessor(ProtoChain(lastOp.before.cls), prototypes, lastOp.key)

LastConfig == LastAccessor.config

\* The last operation was a property write that reached a setter.
WroteAccessor ==
  /\ lastOp.kind = "write"
  /\ lastOp.before.props[lastOp.key] = Absent
  /\ LastAccessor.defined

\* The idlNames the configs of class c declare.
DeclaredIdlNames(c) ==
  {attributes[c][i].idlName : i \in {j \in 1..Len(attributes[c]) : attributes[c][j].idlName # NoName}}

\* The keys the prototype of class c has an accessor under.
AccessorKeys(c) == {k \in PropKeys : prototypes[c][k].defined}

\* C1 (as claimed): a write to a non-readonly property with a proxyTarget changes
\* only instance[proxyTarget][idlName]: the private store has no entry for
\* idlName afterwards, no content attribute is created or changed, and
\* attributeChangedCallback is not called by the write.
C1_ProxyWriteOnlyWritesTarget ==
  (WroteAccessor /\ HasProxy(LastConfig) /\ ~LastConfig.readonly) =>
    /\ LastEl.target = [lastOp.before.target EXCEPT ![lastOp.key] = lastOp.value]
    /\ LastEl.idlAttributes[lastOp.key] = Absent
    /\ LastEl.attrs = lastOp.before.attrs
    /\ LastEl.props = lastOp.before.props
    /\ lastOp.calls = <<>>
    /\ lastOp.hook = <<>>

\* C2 (as claimed): a config with contentName and no idlName defines no accessor
\* under any key: once a class is set up, the keys its prototype has accessors
\* under are exactly the idlNames its configs declare.
C2_AccessorsAreDeclaredIdlNames ==
  \A c \in registered :
    attributesReady[MixinOf(c)] => AccessorKeys(c) = DeclaredIdlNames(c)

\* C3 (as claimed): for a config with only idlName (not readonly, no type), a
\* write of any value, 0, '' and false included, immediately followed by a read
\* returns the written value.
C3_WriteThenReadReturnsWritten ==
  (/\ lastRead.kind = "get"
   /\ WroteAccessor
   /\ lastRead.inst = lastOp.inst
   /\ lastRead.key = lastOp.key
   /\ ~Reflects(LastConfig) /\ ~HasProxy(LastConfig)
   /\ ~LastConfig.readonly /\ LastConfig.type = "none") =>
    lastRead.value = lastOp.value

\* C4 (as claimed): a write to a non-readonly non-reflecting property calls
\* attributeChangedCallback exactly once, with (idlName, the value the private
\* store held before, the written value), also when the two are equal; and an
\* assignment to a property name that no config declares calls it zero times.
C4_HookOncePerNonReflectingWrite ==
  /\ (/\ WroteAccessor
      /\ ~Reflects(LastConfig) /\ ~HasProxy(LastConfig) /\ ~LastConfig.readonly) =>
       lastOp.hook = <<HookCall("direct", LastConfig.idlName,
                                MapGet(lastOp.before.idlAttributes, LastConfig.idlName),
                                lastOp.value)>>
  /\ (lastOp.kind = "write" /\ lastOp.key \notin DeclaredIdlNames(lastOp.before.cls)) =>
       lastOp.hook = <<>>

\* What the host calls attributeChangedCallback with for one call of
\* setAttribute or removeAttribute that took the instance from before to after.
HostHook(before, after, call, observed) ==
  IF InSeq(call.name, observed)
     /\ (call.op = "setAttribute" \/ before.attrs[call.name] # Null)
  THEN <<HookCall("host", call.name, before.attrs[call.name], after.attrs[call.name])>>
  ELSE <<>>

LastObserved == ObservedOf(lastOp.before.cls)

\* What C5 says of a write that reached the setter of a reflecting property: one
\* call of setAttribute or removeAttribute, on contentName, and no call of the
\* hook but the host's.
ReflectingWriteCallsHostOnce ==
  /\ Len(lastOp.calls) = 1
  /\ lastOp.calls[1].name = LastConfig.contentName
  /\ lastOp.hook = HostHook(lastOp.before, LastEl, lastOp.calls[1], LastObserved)

\* What C5 says of the host: it calls the hook only for observed names, once per
\* mutation it reports, and never for a name outside the observed list.
HostCallsHookForObservedOnly ==
  /\ \A k \in 1..Len(lastOp.hook) :
       lastOp.hook[k].by = "host" => InSeq(lastOp.hook[k].name, LastObserved)
  /\ lastOp.kind \in {"setAttribute", "removeAttribute"} =>
       lastOp.hook = HostHook(lastOp.before, LastEl, lastOp.calls[1], LastObserved)

\* C5 (as claimed): every write to a property with idlName and contentName makes
\* exactly one call of setAttribute or removeAttribute on contentName and calls
\* the hook only through the host.
C5_ReflectingWriteAsClaimed ==
  /\ (WroteAccessor /\ Reflects(LastConfig) /\ LastConfig.idlName # NoName) =>
       ReflectingWriteCallsHostOnce
  /\ HostCallsHookForObservedOnly

\* C5 (amended): a write to a property with idlName and contentName that is not
\* readonly makes exactly one call of setAttribute or removeAttribute on
\* contentName and never calls the hook directly; the host calls the hook once
\* per attribute mutation it reports for an observed name, with the contentName
\* as name, and never for a name outside the observed list.
C5_ReflectingWrite ==
  /\ (/\ WroteAccessor /\ Reflects(LastConfig) /\ LastConfig.idlName # NoName
      /\ ~LastConfig.readonly) =>
       ReflectingWriteCallsHostOnce
  /\ HostCallsHookForObservedOnly

\* C5's case: a write to a reflecting property, not readonly, whose attribute
\* had a value, and the host's call of the hook with the contentName.
C5_Witness ==
  /\ WroteAccessor /\ Reflects(LastConfig) /\ LastConfig.idlName = "a"
  /\ ~LastConfig.readonly
  /\ lastOp.before.attrs[LastConfig.contentName] # Null
  /\ Len(lastOp.hook) = 1 /\ lastOp.hook[1].name = "c"

\* C6: a write to a non-reflecting property creates, changes and removes no
\* content attribute, and a content attribute set or removed from outside, one
\* named like the idlName included, changes what no non-reflecting property
\* reads.
C6_NonReflectingLeavesAttributes ==
  /\ (WroteAccessor /\ ~Reflects(LastConfig)) =>
       (LastEl.attrs = lastOp.before.attrs /\ lastOp.calls = <<>>)
  /\ lastOp.kind \in {"setAttribute", "removeAttribute"} =>
       \A k \in PropKeys :
         LET acc == FindAccessor(ProtoChain(LastEl.cls), prototypes, k)
         IN (acc.defined /\ ~Reflects(acc.config)) =>
              GetProperty(LastEl, prototypes, k) = GetProperty(lastOp.before, prototypes, k)

\* C6's case: the attribute named like the idlName is set from outside after the
\* property was written, and the property still reads the written value.
C6_Witness ==
  /\ lastOp.kind = "setAttribute" /\ lastOp.key = "a"
  /\ lastOp.before.idlAttributes["a"] = Str(Chars("abc"))
  /\ prototypes[LastEl.cls]["a"].defined
  /\ GetProperty(LastEl, prototypes, "a") = Str(Chars("abc"))

\* The content names of the configs in list order, told from the positions: the
\* k-th name is the contentName of the k-th config that has one.
ContentNamesInOrder(configs, list) ==
  LET with == {i \in 1..Len(configs) : configs[i].contentName # NoName}
  IN /\ Len(list) = Cardinality(with)
     /\ \A i \in with :
          list[Cardinality({j \in with : j <= i})] = configs[i].contentName

\* C7: observedAttributes of a class is the contentNames of exactly the configs
\* that have one, in the order of the configs; every read returns that list, so
\* successive reads agree, and a read changes nothing of the program.
C7_ObservedAttributes ==
  /\ [](\A c \in registered :
          /\ ContentNamesInOrder(attributes[c], ObservedOf(c))
          /\ (lastRead.kind = "observedAttributes" /\ lastRead.key = c) =>
               ContentNamesInOrder(attributes[c], lastRead.list))
  /\ [][\A c \in registered :
          ReadObservedAttributes(c) =>
            UNCHANGED <<registered, attributes, attributesReady, prototypes, instances>>]_vars

\* C7's case: a list of two configs of which only the second has a contentName,
\* and a read of observedAttributes that returns that one name.
C7_Witness ==
  /\ lastRead.kind = "observedAttributes"
  /\ Len(attributes[lastRead.key]) = 2
  /\ attributes[lastRead.key][1].contentName = NoName
  /\ lastRead.list = <<"c">>

\* C7's other case: two contentNames, returned in the order of the configs,
\* which is not the sorted one.
C7_WitnessOrder ==
  /\ lastRead.kind = "observedAttributes"
  /\ lastRead.list = <<"c", "a">>

\* What C8 says of reads: the property is true exactly when the content
\* attribute is present, whatever its value and whatever defaultValue is.
BooleanReadsPresence ==
  \A i \in DOMAIN instances :
    \A k \in PropKeys :
      LET acc == FindAccessor(ProtoChain(instances[i].cls), prototypes, k)
      IN (/\ acc.defined /\ acc.config.type = "boolean"
          /\ Reflects(acc.config) /\ acc.config.idlName # NoName) =>
           GetProperty(instances[i], prototypes, k)
             = Bool(hasAttribute(instances[i], acc.config.contentName))

\* What C8 says of a write: a truthy value leaves the attribute present with
\* value '', a falsy value leaves it absent.
BooleanWriteSetsPresence ==
  LET now == getAttribute(LastEl, LastConfig.contentName)
  IN IF Truthy(lastOp.value) THEN now = Str(<<>>) ELSE now = Null

\* C8 (as claimed): for every boolean config with idlName and contentName.
C8_BooleanReflectsAsClaimed ==
  /\ BooleanReadsPresence
  /\ (/\ WroteAccessor /\ LastConfig.type = "boolean"
      /\ Reflects(LastConfig) /\ LastConfig.idlName # NoName) =>
       BooleanWriteSetsPresence

\* C8 (amended): for every boolean config with idlName and contentName, get() is
\* true exactly when the content attribute is present, whatever its value and
\* whatever defaultValue is; when the config is not readonly, a write of a truthy
\* value leaves the attribute present with value '' and a write of a falsy value
\* leaves it absent.
C8_BooleanReflects ==
  /\ BooleanReadsPresence
  /\ (/\ WroteAccessor /\ LastConfig.type = "boolean"
      /\ Reflects(LastConfig) /\ LastConfig.idlName # NoName
      /\ ~LastConfig.readonly) =>
       BooleanWriteSetsPresence

\* C8's case: the attribute was set from outside to 'abc', the property (with a
\* falsy defaultValue) is then written a truthy value, and reads true.
C8_Witness ==
  /\ WroteAccessor /\ LastConfig.type = "boolean" /\ Reflects(LastConfig)
  /\ LastConfig.idlName = "a" /\ ~LastConfig.readonly
  /\ LastConfig.defaultValue = Num(0, 0)
  /\ lastOp.before.attrs["c"] = Str(Chars("abc"))
  /\ Truthy(lastOp.value)
  /\ GetProperty(LastEl, prototypes, "a") = Bool(TRUE)

\* The written values C9 is about: numbers and numeric strings.
IsNumeric(v) == parseFloat(v) # NaN

\* C9 (as claimed, for a config with neither readonly nor defaultValue): for a
\* number config with idlName and contentName, a write of a number or a numeric
\* string x, 0 and '0' included, followed by a read returns the parse of x and
\* leaves the string form of x in the attribute; before any write the read
\* returns null; after the attribute is set from outside to a numeric string the
\* read returns its parse.
C9_NumberRoundTrip ==
  (/\ lastOp.inst > 0
   /\ prototypes[LastEl.cls]["a"].defined
   /\ prototypes[LastEl.cls]["a"].config.type = "number"
   /\ Reflects(prototypes[LastEl.cls]["a"].config)
   /\ ~prototypes[LastEl.cls]["a"].config.readonly
   /\ prototypes[LastEl.cls]["a"].config.defaultValue = Undefined) =>
    /\ lastOp.kind = "construct" => GetProperty(LastEl, prototypes, "a") = Null
    /\ (lastOp.kind = "write" /\ lastOp.key = "a" /\ IsNumeric(lastOp.value)) =>
         /\ GetProperty(LastEl, prototypes, "a") = parseFloat(lastOp.value)
         /\ getAttribute(LastEl, "c") = Str(ToStr(lastOp.value))
    /\ (lastOp.kind = "setAttribute" /\ lastOp.key = "c" /\ IsNumeric(lastOp.value)) =>
         GetProperty(LastEl, prototypes, "a") = parseFloat(lastOp.value)

\* C10 (as claimed, for a config with only idlName and no type): with readonly
\* and a defaultValue other than undefined, 0, '' and false included, get()
\* returns defaultValue in every state.
C10_ReadonlyReadsDefault ==
  \A i \in DOMAIN instances :
    LET acc == FindAccessor(ProtoChain(instances[i].cls), prototypes, "a")
    IN (/\ acc.defined /\ acc.config.readonly /\ acc.config.type = "none"
        /\ ~Reflects(acc.config) /\ ~HasProxy(acc.config)
        /\ acc.config.defaultValue # Undefined) =>
         GetProperty(instances[i], prototypes, "a") = acc.config.defaultValue

\* C11: a write to a property whose config has readonly: true is a no-op: the
\* proxy target, the private store and every content attribute of the instance
\* are as before, setAttribute and removeAttribute are not called, and
\* attributeChangedCallback is not called.
C11_ReadonlyWriteIsNoOp ==
  (WroteAccessor /\ LastConfig.readonly) =>
    /\ LastEl.target = lastOp.before.target
    /\ LastEl.idlAttributes = lastOp.before.idlAttributes
    /\ LastEl.attrs = lastOp.before.attrs
    /\ LastEl = lastOp.before
    /\ lastOp.calls = <<>>
    /\ lastOp.hook = <<>>

\* C11's case: a write of 42 to a readonly number property with a proxyTarget
\* whose proxied value had been set directly to 'abc', which it still is.
C11_Witness ==
  /\ WroteAccessor /\ LastConfig.readonly /\ HasProxy(LastConfig)
  /\ LastConfig.type = "number"
  /\ lastOp.value = Num(42, 0)
  /\ lastOp.before.target["a"] = Str(Chars("abc"))
  /\ LastEl.target["a"] = Str(Chars("abc"))

\* The configs of a list that fail one of the three checks.
InvalidConfigs(configs) ==
  {configs[i] : i \in {j \in 1..Len(configs) : ConfigError(configs[j]) # ""}}

ConfigErrors == {ConfigError(d) : d \in CheckedConfigs} \ {""}

\* C12 (as claimed, for the first construction of a run): when the list of the
\* class has a config that fails one of the three checks, the construction
\* throws the error of such a config and yields no instance, and the prototype
\* has no accessor for a failing config; a construction throws one of the three
\* errors only when the list has a config that fails its check.
C12_InvalidConfigThrows ==
  (lastOp.kind = "construct" /\ steps = MaxSteps - 1) =>
    LET invalid == InvalidConfigs(attributes[lastOp.key])
    IN /\ invalid # {} =>
            /\ lastOp.error \in {ConfigError(d) : d \in invalid}
            /\ lastOp.inst = 0 /\ instances = <<>>
            /\ ~attributesReady[MixinOf(lastOp.key)]
       /\ \A k \in PropKeys :
            prototypes[lastOp.key][k].defined =>
              prototypes[lastOp.key][k].config \notin invalid
       /\ lastOp.error \in ConfigErrors => invalid # {}

\* A value coerced per the type of a config, as C13 and C16 have it: Boolean(v)
\* for boolean, the parse of v for number, v itself else.  It is said of a
\* number only when v parses.
Coerced(type, v) ==
  CASE type = "boolean" -> Bool(Truthy(v))
    [] type = "number" -> parseFloat(v)
    [] OTHER -> v

\* C13 (as claimed): for a config with a proxyTarget, of every type, get()
\* returns the current instance[proxyTarget][idlName] coerced per the type, also
\* when it was written directly on the proxy target, and the coerced
\* defaultValue when the proxy target has no such property.
C13_ProxyReadsTargetOrDefault ==
  \A i \in DOMAIN instances :
    LET acc == FindAccessor(ProtoChain(instances[i].cls), prototypes, "a")
        d == acc.config
        proxied == instances[i].target["a"]
        read == GetProperty(instances[i], prototypes, "a")
    IN (acc.defined /\ HasProxy(d) /\ instances[i].props["a"] = Absent) =>
         /\ (proxied # Absent /\ (d.type = "number" => IsNumeric(proxied))) =>
              read = Coerced(d.type, proxied)
         /\ (/\ proxied = Absent /\ d.defaultValue # Undefined
             /\ (d.type = "number" => IsNumeric(d.defaultValue))) =>
              read = Coerced(d.type, d.defaultValue)

\* The prototype of class c once its configs are set up, and whether the set-up
\* of its list throws nothing.
Installed(c) == setupAttributes(EmptyPrototype, attributes[c])

HasInstance(c) == \E i \in DOMAIN instances : instances[i].cls = c

\* C14 (as claimed): for a class with a valid list, the accessors are defined on
\* its prototype during the construction of its first instance, not before and
\* once only: the prototype is empty while the class has no instance and has
\* exactly the accessors of the list from then on, whatever number of instances
\* follow, and no construction throws.
C14_InstalledOnceAtFirstInstance ==
  \A c \in registered :
    Installed(c).error = "" =>
      /\ prototypes[c] = IF HasInstance(c) THEN Installed(c).proto ELSE EmptyPrototype
      /\ (lastOp.kind = "construct" /\ lastOp.key = c) => lastOp.error = ""

\* C18 (as claimed): every instance has an accessor for every idlName its own
\* class declares, whatever classes were constructed before.
C18_InstanceHasDeclaredAccessors ==
  \A i \in DOMAIN instances :
    \A idl \in DeclaredIdlNames(instances[i].cls) :
      FindAccessor(ProtoChain(instances[i].cls), prototypes, idl).defined

\* The keys and the content names the configs of class c declare.
DeclaredKeys(c) == {PropertyKey(attributes[c][i].idlName) : i \in 1..Len(attributes[c])}

DeclaredContentNames(c) ==
  {attributes[c][i].contentName : i \in 1..Len(attributes[c])} \ {NoName}

\* What C15 says of every state: an instance finds only accessors that a config
\* of its own class defines; a write under a key its class declares nothing for
\* calls neither setAttribute nor removeAttribute nor the hook and leaves the
\* content attributes; observedAttributes of a class has only its own
\* contentNames.
OnlyOwnAccessors ==
  /\ \A i \in DOMAIN instances :
       \A k \in PropKeys :
         LET acc == FindAccessor(ProtoChain(instances[i].cls), prototypes, k)
         IN acc.defined => InSeq(acc.config, attributes[instances[i].cls])
  /\ (lastOp.kind = "write" /\ lastOp.key \notin DeclaredKeys(lastOp.before.cls)) =>
       /\ LastEl.attrs = lastOp.before.attrs
       /\ lastOp.calls = <<>> /\ lastOp.hook = <<>>
  /\ lastRead.kind = "observedAttributes" =>
       \A k \in 1..Len(lastRead.list) :
         lastRead.list[k] \in DeclaredContentNames(lastRead.key)

\* What C15 says of a write, as a step of the program: it changes what no
\* instance of another class reads under any key.
WriteLeavesOtherClasses ==
  (lastOp'.kind = "write" /\ steps' < steps) =>
    \A j \in DOMAIN instances :
      instances[j].cls # lastOp'.before.cls =>
        \A k \in PropKeys :
          GetProperty(instances'[j], prototypes', k) = GetProperty(instances[j], prototypes, k)

\* C15: two component classes, each over its own call of attributesMixin, in
\* every order of constructing their instances: a write to a property of an
\* instance of one changes what no instance of the other reads, an accessor (and
\* its reflection) that only one declares is not found on instances of the other,
\* where an assignment of that name creates no content attribute, and
\* observedAttributes of each lists only its own contentNames.
C15_TypesIsolated == []OnlyOwnAccessors /\ [][WriteLeavesOtherClasses]_vars

\* C15's case: WebComponent declares a reflecting 'a', WebComponentX does not;
\* after an instance of each was constructed, 'a' is assigned on the instance of
\* WebComponentX: an own data property, and no content attribute 'c'.
C15_Witness ==
  /\ lastOp.kind = "write" /\ lastOp.key = "a"
  /\ LastEl.cls = "WebComponentX"
  /\ HasInstance("WebComponent")
  /\ prototypes["WebComponent"]["a"].defined
  /\ Reflects(prototypes["WebComponent"]["a"].config)
  /\ "a" \notin DeclaredKeys("WebComponentX")
  /\ LastEl.props["a"] = lastOp.value
  /\ LastEl.attrs["c"] = Null

\* What get() of a non-reflecting config gives when the store has no value and
\* the config no defaultValue.
LastFallback(type) ==
  CASE type = "boolean" -> Bool(FALSE)
    [] type = "number" -> Null
    [] type = "string" -> Str(<<>>)
    [] OTHER -> Null

\* C16 (as claimed): for a config with idlName only, get() returns the value in
\* the private store if one was set (coerced per the type), otherwise
\* defaultValue, otherwise false, null, '' or null by type; for a number a stored
\* value that does not parse gives the parsed defaultValue and then null.
C16_NonReflectingRead ==
  \A i \in DOMAIN instances :
    LET acc == FindAccessor(ProtoChain(instances[i].cls), prototypes, "a")
        d == acc.config
        stored == instances[i].idlAttributes["a"]
        read == GetProperty(instances[i], prototypes, "a")
        default == IF d.defaultValue = Undefined
                     \/ (d.type = "number" /\ ~IsNumeric(d.defaultValue))
                   THEN LastFallback(d.type)
                   ELSE Coerced(d.type, d.defaultValue)
    IN (/\ acc.defined /\ ~Reflects(d) /\ ~HasProxy(d)
        /\ instances[i].props["a"] = Absent) =>
         read = IF stored = Absent \/ (d.type = "number" /\ ~IsNumeric(stored))
                THEN default
                ELSE Coerced(d.type, stored)

\* C17 (as claimed): the set-up of a list whose configs each pass the three
\* checks throws nothing: the first construction yields an instance.
C17_ValidListInstalls ==
  (/\ lastOp.kind = "construct"
   /\ \A k \in 1..Len(attributes[lastOp.key]) : ConfigError(attributes[lastOp.key][k]) = "") =>
    lastOp.error = "" /\ lastOp.inst > 0

====
